---- MODULE Spec2Model ----
(***************************************************************************)
(* Model of the repository layer of rust-todo (api crate):                 *)
(*   - LabelRepositoryForMemory  (api/src/repositories/label.rs 153-198)   *)
(*   - LabelRepositoryForDb      (api/src/repositories/label.rs 26-93)     *)
(*   - the Todo repositories next to them, as wired by create_app          *)
(*     (api/src/main.rs 50-76 and its tests 131-308).                      *)
(*   - the POST /todos handler of the sibling crate (src/handlers.rs)      *)
(*   - concurrent callers of one LabelRepositoryForMemory and its RwLock   *)
(***************************************************************************)
EXTENDS Integers, Sequences, FiniteSets, TLC

(***************************************************************************)
(* Bounds of the model.                                                    *)
(***************************************************************************)
NumNames == 3
MaxSeq == 4
NumProcs == 2

NameList == <<"a", "b", "c", "d", "e", "f">>
Names == {NameList[i] : i \in 1..NumNames}
\* ids a caller may pass to delete: every id a backend can have issued
IdArgs == 1..MaxSeq
Procs == 1..NumProcs

VARIABLES
    backend,        \* which backend create_app was given: "Memory", "Db" or "Both"
    store,          \* LabelRepositoryForMemory.store : HashMap<i32, Label>
    memLast,        \* last call on the in-memory label repository and its result
    memIssued,      \* history: the ids the in-memory create has returned so far
    labels_table,   \* rows of the relation labels(id, name)
    labels_id_seq,  \* last value of the serial sequence behind labels.id
    dbLast,         \* last call on the database label repository and its result
    pc,             \* per task: position inside LabelRepositoryForDb::create
    arg,            \* per task: the name bound to the running create
    optional_label, \* per task: result of the lookup select (a set of 0 or 1 rows)
    ret,            \* per task: result of the task's last finished call
    wired,          \* whether the Todo repository has been constructed
    todoRepoLabels, \* TodoRepositoryForMemory: the label list given to new(labels)
    todo_store,     \* TodoRepositoryForMemory: id -> TodoEntity
    todos_table,    \* rows of the relation todos(id, text, completed)
    todos_id_seq,   \* last value of the serial sequence behind todos.id
    todo_labels,    \* rows of the association relation todo_labels(todo_id, label_id)
    todoLast,       \* last call on the Todo repository and its result
    todoFresh,      \* history: id -> Todo returned by create, until an update or delete
    response,       \* what the POST /todos handler answered last
    lock,           \* the RwLock around LabelRepositoryForMemory.store
    call            \* per task: the in-memory label call the task is running

memVars == <<store, memLast, memIssued>>
dbVars == <<labels_table, labels_id_seq, dbLast>>
taskVars == <<pc, arg, optional_label, ret>>
todoVars == <<wired, todoRepoLabels, todo_store, todos_table, todos_id_seq, todoLast,
              todoFresh>>
httpVars == <<response>>
lockVars == <<lock, call>>
vars == <<backend, store, memLast, memIssued, labels_table, labels_id_seq, dbLast,
          pc, arg, optional_label, ret, wired, todoRepoLabels, todo_store, todos_table,
          todos_id_seq, todo_labels, todoLast, todoFresh, response, lock, call>>

(***************************************************************************)
(* Values.                                                                 *)
(***************************************************************************)
\* struct Label { id, name }
Label(id, name) == [id |-> id, name |-> name]

\* anyhow::Result<T> as seen by the caller.  kind is "Ok", one of the
\* RepositoryError variants "NotFound", "Duplicate", "Unexpected", or
\* "SqlxError" for a sqlx::Error propagated by `?` without conversion.
Ret(kind, id, name, labels, detail) ==
    [kind |-> kind, id |-> id, name |-> name, labels |-> labels, detail |-> detail]
OkLabel(l) == Ret("Ok", l.id, l.name, <<>>, "")
OkLabels(ls) == Ret("Ok", 0, "", ls, "")
OkUnit == Ret("Ok", 0, "", <<>>, "")
NotFound(id) == Ret("NotFound", id, "", <<>>, "")
Duplicate(id) == Ret("Duplicate", id, "", <<>>, "")
Unexpected(detail) == Ret("Unexpected", 0, "", <<>>, detail)
SqlxError(detail) == Ret("SqlxError", 0, "", <<>>, detail)

\* A finished call: the operation, its argument (name or id), the store
\* failure it met ("none" when the store answered), the stored labels and
\* the issued ids when it started, and what it returned.
Call(op, name, id, fault, pre, issued, res) ==
    [op |-> op, name |-> name, id |-> id, fault |-> fault, pre |-> pre,
     issued |-> issued, res |-> res]
NoCall == Call("none", "", 0, "none", {}, {}, OkUnit)

\* struct TodoEntity { id, text, completed, labels }
TodoEntity(id, text, completed, ls) ==
    [id |-> id, text |-> text, completed |-> completed, labels |-> ls]
NoTodo == TodoEntity(0, "", FALSE, {})

\* anyhow::Result<TodoEntity> / anyhow::Result<()> of the Todo repository
TodoOk(t) == [kind |-> "Ok", id |-> t.id, todo |-> t]
TodoNotFound(id) == [kind |-> "NotFound", id |-> id, todo |-> NoTodo]

\* A finished Todo call: operation, id argument, label ids of the CreateTodo
\* payload, the label ids the LabelRepository held and the todo ids stored
\* when it started, and the result.
TodoCall(op, id, ids, labelsPre, todosPre, res) ==
    [op |-> op, id |-> id, ids |-> ids, labelsPre |-> labelsPre,
     todosPre |-> todosPre, res |-> res]
NoTodoCall == TodoCall("none", 0, {}, {}, {}, TodoOk(NoTodo))

\* (StatusCode, Json(body)) as the handler returns it
Response(status, body) == [status |-> status, body |-> body]
NoResponse == Response("none", TodoOk(NoTodo))

\* RwLock<LabelDatas>: the task holding the write guard (0 for none) and the
\* tasks holding read guards
Unlocked == [writer |-> 0, readers |-> {}]

\* a call a task has started: the operation and its argument
Request(op, name, id) == [op |-> op, name |-> name, id |-> id]
NoRequest == Request("none", "", 0)

\* the Label values of a HashMap<i32, Label>
Values(s) == {s[k] : k \in DOMAIN s}

\* every order in which a set can be enumerated
Orders(S) ==
    {q \in [1..Cardinality(S) -> S] : \A i, j \in 1..Cardinality(S) : q[i] = q[j] => i = j}

IsAscending(q) == \A i, j \in 1..Len(q) : i < j => q[i].id < q[j].id

(***************************************************************************)
(* LabelRepositoryForMemory                                                *)
(***************************************************************************)
\* a lookup that never finds the name
FindByName_never(s, name) == {}

\* store.iter().find(|(_key, label)| label.name == name)
FindByName(s, name) == {l \in Values(s) : l.name = name}

\* let id = store.len() as i32 + 1;
NewId(s) == Cardinality(DOMAIN s) + 1

\* store.insert(id, label.clone())
Insert(s, id, l) == [k \in DOMAIN s \cup {id} |-> IF k = id THEN l ELSE s[k]]

\* a remove that takes the entry with the smallest key instead of the given one
Remove_first(s, id) ==
    [k \in DOMAIN s \ {CHOOSE m \in DOMAIN s : \A j \in DOMAIN s : m <= j} |-> s[k]]

\* store.remove(&id)
Remove(s, id) == [k \in DOMAIN s \ {id} |-> s[k]]

\* HashMap::values(): the iteration order of a HashMap is unspecified
ValuesInOrder(s) == Orders(Values(s))

LabelRepositoryForMemory_create(name) ==
    IF FindByName(store, name) # {}
    THEN \E l \in FindByName(store, name) :
            /\ memLast' = Call("create", name, 0, "none", Values(store), memIssued,
                                OkLabel(l))
            /\ memIssued' = memIssued \cup {l.id}
            /\ store' = store
    ELSE LET id == NewId(store)
             l == Label(id, name)
         IN /\ store' = Insert(store, id, l)
            /\ memLast' = Call("create", name, 0, "none", Values(store), memIssued,
                                OkLabel(l))
            /\ memIssued' = memIssued \cup {id}

LabelRepositoryForMemory_all ==
    \E q \in ValuesInOrder(store) :
        /\ memLast' = Call("all", "", 0, "none", Values(store), memIssued, OkLabels(q))
        /\ UNCHANGED <<store, memIssued>>

LabelRepositoryForMemory_delete(id) ==
    IF id \in DOMAIN store
    THEN /\ store' = Remove(store, id)
         /\ memLast' = Call("delete", "", id, "none", Values(store), memIssued, OkUnit)
         /\ UNCHANGED memIssued
    ELSE /\ memLast' = Call("delete", "", id, "none", Values(store), memIssued,
                             NotFound(id))
         /\ UNCHANGED <<store, memIssued>>

(***************************************************************************)
(* LabelRepositoryForDb                                                    *)
(***************************************************************************)
\* schema of the relation labels: name carries a unique constraint
NameUnique == TRUE

\* select * from labels where name = $1
SelectByName(rows, name) == {r \in rows : r.name = name}

\* fetch_optional: None for an empty result, else Some(first row)
FetchOptional(rows) == IF rows = {} THEN {{}} ELSE {{r} : r \in rows}

\* insert into labels ( name ) values ( $1 ) returning *  (fetch_one).
\* The id is the next value of the serial sequence, which advances even when
\* the row is rejected.
InsertReturning(rows, seq, name) ==
    IF NameUnique /\ SelectByName(rows, name) # {}
    THEN [rows |-> rows, seq |-> seq + 1, res |-> SqlxError("Database")]
    ELSE [rows |-> rows \cup {Label(seq + 1, name)}, seq |-> seq + 1,
          res |-> OkLabel(Label(seq + 1, name))]

\* a duplicate test that reports the sequence value instead of the row's id
CreateAfterLookup_seqId(opt, rows, seq, name, fault) ==
    IF opt # {}
    THEN [rows |-> rows, seq |-> seq, res |-> Duplicate(seq + 1)]
    ELSE IF fault
         THEN [rows |-> rows, seq |-> seq, res |-> SqlxError("Io")]
         ELSE InsertReturning(rows, seq, name)

\* create after the lookup has returned: lines 49-62
CreateAfterLookup(opt, rows, seq, name, fault) ==
    IF opt # {}
    THEN [rows |-> rows, seq |-> seq, res |-> Duplicate((CHOOSE l \in opt : TRUE).id)]
    ELSE IF fault
         THEN [rows |-> rows, seq |-> seq, res |-> SqlxError("Io")]
         ELSE InsertReturning(rows, seq, name)

\* select * from labels order by labels.id asc  (fetch_all)
OrderById(rows) == CHOOSE q \in Orders(rows) : IsAscending(q)

\* delete from labels where id=$1  (execute): Ok(rows_affected) also when no
\* row matches; an Err only when the statement could not be run.
ExecuteDelete(rows, id, fault) ==
    IF fault
    THEN [err |-> "Io", rows |-> rows, rows_affected |-> 0]
    ELSE [err |-> "none", rows |-> {r \in rows : r.id # id},
          rows_affected |-> Cardinality({r \in rows : r.id = id})]

\* the association rows of a deleted label go with it (cascade on the label side)
CascadeLabel(assoc, id) == {a \in assoc : a.label_id # id}

\* .map_err(|e| match e { RowNotFound => NotFound(id), _ => Unexpected(e.to_string()) })
MapErr(e, id) == IF e = "RowNotFound" THEN NotFound(id) ELSE Unexpected(e)

LabelRepositoryForDb_create(name, fault) ==
    /\ labels_id_seq < MaxSeq
    /\ IF fault = "select"
       THEN /\ dbLast' = Call("create", name, 0, fault, labels_table, {}, SqlxError("Io"))
            /\ UNCHANGED <<labels_table, labels_id_seq>>
       ELSE \E opt \in FetchOptional(SelectByName(labels_table, name)) :
               LET out == CreateAfterLookup(opt, labels_table, labels_id_seq, name,
                                            fault = "insert")
               IN /\ labels_table' = out.rows
                  /\ labels_id_seq' = out.seq
                  /\ dbLast' = Call("create", name, 0,
                                    IF opt # {} THEN "none" ELSE fault,
                                    labels_table, {}, out.res)

LabelRepositoryForDb_all(fault) ==
    /\ dbLast' = Call("all", "", 0, IF fault THEN "select" ELSE "none", labels_table, {},
                      IF fault THEN SqlxError("Io") ELSE OkLabels(OrderById(labels_table)))
    /\ UNCHANGED <<labels_table, labels_id_seq>>

LabelRepositoryForDb_delete(id, fault) ==
    LET done == ExecuteDelete(labels_table, id, fault)
    IN /\ labels_table' = done.rows
       /\ todo_labels' = IF done.err = "none" THEN CascadeLabel(todo_labels, id)
                         ELSE todo_labels
       /\ dbLast' = Call("delete", "", id, IF fault THEN "delete" ELSE "none", labels_table, {},
                         IF done.err # "none" THEN MapErr(done.err, id) ELSE OkUnit)
       /\ UNCHANGED labels_id_seq

(***************************************************************************)
(* Sequential use of one label repository: create_app is given one backend *)
(* and every call runs to completion before the next one starts.           *)
(***************************************************************************)
InitWith(b) ==
    /\ backend = b
    /\ store = <<>>
    /\ memLast = NoCall
    /\ memIssued = {}
    /\ labels_table = {}
    /\ labels_id_seq = 0
    /\ dbLast = NoCall
    /\ pc = [p \in Procs |-> "idle"]
    /\ arg = [p \in Procs |-> ""]
    /\ optional_label = [p \in Procs |-> {}]
    /\ ret = [p \in Procs |-> NoCall]
    /\ wired = (b = "Db")
    /\ todoRepoLabels = {}
    /\ todo_store = <<>>
    /\ todos_table = {}
    /\ todos_id_seq = 0
    /\ todo_labels = {}
    /\ todoLast = NoTodoCall
    /\ todoFresh = <<>>
    /\ response = NoResponse
    /\ lock = Unlocked
    /\ call = [p \in Procs |-> NoRequest]

Init == \E b \in {"Memory", "Db"} : InitWith(b)

MemCreate ==
    /\ backend = "Memory"
    /\ \E name \in Names : LabelRepositoryForMemory_create(name)
    /\ UNCHANGED <<backend, httpVars, lockVars, todoVars, todo_labels, dbVars, taskVars>>

MemAll ==
    /\ backend = "Memory"
    /\ LabelRepositoryForMemory_all
    /\ UNCHANGED <<backend, httpVars, lockVars, todoVars, todo_labels, dbVars, taskVars>>

MemDelete ==
    /\ backend = "Memory"
    /\ \E id \in IdArgs : LabelRepositoryForMemory_delete(id)
    /\ UNCHANGED <<backend, httpVars, lockVars, todoVars, todo_labels, dbVars, taskVars>>

DbCreate ==
    /\ backend = "Db"
    /\ \E name \in Names, fault \in {"none", "select", "insert"} :
          LabelRepositoryForDb_create(name, fault)
    /\ UNCHANGED <<backend, httpVars, lockVars, todoVars, todo_labels, memVars, taskVars>>

DbAll ==
    /\ backend = "Db"
    /\ \E fault \in BOOLEAN : LabelRepositoryForDb_all(fault)
    /\ UNCHANGED <<backend, httpVars, lockVars, todoVars, todo_labels, memVars, taskVars>>

DbDelete ==
    /\ backend = "Db"
    /\ \E id \in IdArgs, fault \in BOOLEAN : LabelRepositoryForDb_delete(id, fault)
    /\ UNCHANGED <<backend, httpVars, lockVars, todoVars, memVars, taskVars>>

Next == MemCreate \/ MemAll \/ MemDelete \/ DbCreate \/ DbAll \/ DbDelete

Spec == Init /\ [][Next]_vars

(***************************************************************************)
(* Concurrent use of the database label repository: every request runs on  *)
(* its own task, and a create is two statements on the pool with an await  *)
(* after each, so other tasks' statements may run between them.            *)
(***************************************************************************)
InitConc == InitWith("Db")

\* statements a started create may still send to the sequence
Pending == Cardinality({p \in Procs : pc[p] = "lookup_done"})

\* create, lines 40-47: the lookup select and its await
TaskCreateLookup(p) ==
    /\ pc[p] = "idle"
    /\ labels_id_seq + Pending < MaxSeq
    /\ \E name \in Names, fault \in BOOLEAN :
          IF fault
          THEN /\ ret' = [ret EXCEPT ![p] = Call("create", name, 0, "select", labels_table,
                                                 {}, SqlxError("Io"))]
               /\ UNCHANGED <<pc, arg, optional_label>>
          ELSE \E opt \in FetchOptional(SelectByName(labels_table, name)) :
                  /\ pc' = [pc EXCEPT ![p] = "lookup_done"]
                  /\ arg' = [arg EXCEPT ![p] = name]
                  /\ optional_label' = [optional_label EXCEPT ![p] = opt]
                  /\ UNCHANGED ret
    /\ UNCHANGED <<backend, httpVars, lockVars, todoVars, todo_labels, memVars, dbVars>>

\* create, lines 49-62: the duplicate test, the insert and its await
TaskCreateInsert(p) ==
    /\ pc[p] = "lookup_done"
    /\ \E fault \in BOOLEAN :
          LET out == CreateAfterLookup(optional_label[p], labels_table, labels_id_seq,
                                       arg[p], fault)
          IN /\ labels_table' = out.rows
             /\ labels_id_seq' = out.seq
             /\ ret' = [ret EXCEPT ![p] =
                           Call("create", arg[p], 0,
                                IF fault /\ optional_label[p] = {} THEN "insert" ELSE "none",
                                labels_table, {}, out.res)]
    /\ pc' = [pc EXCEPT ![p] = "idle"]
    /\ arg' = [arg EXCEPT ![p] = ""]
    /\ optional_label' = [optional_label EXCEPT ![p] = {}]
    /\ UNCHANGED <<backend, httpVars, lockVars, todoVars, todo_labels, memVars, dbLast>>

\* all, lines 65-75: one statement
TaskAll(p) ==
    /\ pc[p] = "idle"
    /\ \E fault \in BOOLEAN :
          ret' = [ret EXCEPT ![p] =
                     Call("all", "", 0, IF fault THEN "select" ELSE "none", labels_table, {},
                          IF fault THEN SqlxError("Io")
                          ELSE OkLabels(OrderById(labels_table)))]
    /\ UNCHANGED <<backend, httpVars, lockVars, todoVars, todo_labels, memVars, dbVars, pc, arg, optional_label>>

NextConc == \E p \in Procs : TaskCreateLookup(p) \/ TaskCreateInsert(p) \/ TaskAll(p)

SpecConc == InitConc /\ [][NextConc]_vars

(***************************************************************************)
(* The two backends side by side: both start empty and every call is made  *)
(* on both, with the database answering every statement.                   *)
(***************************************************************************)
InitPair == InitWith("Both")

PairCreate ==
    /\ backend = "Both"
    /\ \E name \in Names :
          /\ LabelRepositoryForMemory_create(name)
          /\ LabelRepositoryForDb_create(name, "none")
    /\ UNCHANGED <<backend, httpVars, lockVars, todoVars, todo_labels, taskVars>>

PairAll ==
    /\ backend = "Both"
    /\ LabelRepositoryForMemory_all
    /\ LabelRepositoryForDb_all(FALSE)
    /\ UNCHANGED <<backend, httpVars, lockVars, todoVars, todo_labels, taskVars>>

PairDelete ==
    /\ backend = "Both"
    /\ \E id \in IdArgs :
          /\ LabelRepositoryForMemory_delete(id)
          /\ LabelRepositoryForDb_delete(id, FALSE)
    /\ UNCHANGED <<backend, httpVars, lockVars, todoVars, taskVars>>

NextPair == PairCreate \/ PairAll \/ PairDelete

SpecPair == InitPair /\ [][NextPair]_vars

(***************************************************************************)
(* The Todo repositories next to the label repositories, as create_app and *)
(* its tests wire them (main.rs 37-40, 131-161, 295-308).                  *)
(***************************************************************************)
MaxTodos == 2
NumTodoNames == 1
\* the label names used next to the Todo repository
TodoNames == {NameList[i] : i \in 1..NumTodoNames}
FixtureId == 999
Texts == {"buy milk"}

\* label_fixture(): the label list the tests build the Todo repository from
FixtureLabels == {Label(FixtureId, "test label")}

\* label ids a CreateTodo payload may carry
LabelIdArgs == {1, FixtureId}

LabelIds(ls) == {l.id : l \in ls}

\* the Label entity set held by the LabelRepository of the chosen backend
RepositoryLabels(b, st, rows) == IF b = "Memory" THEN Values(st) ELSE rows

\* TodoRepositoryForMemory::new(labels)
TodoRepositoryForMemory_new(ls) ==
    /\ ~wired
    /\ wired' = TRUE
    /\ todoRepoLabels' = ls
    /\ UNCHANGED <<todo_store, todos_table, todos_id_seq, todo_labels, todoLast, todoFresh>>

\* resolve the label ids of a payload against the repository's own label list
ResolveLabels(ls, ids) == {l \in ls : l.id \in ids}

TodoRepositoryForMemory_create(text, ids) ==
    LET missing == ids \ LabelIds(todoRepoLabels)
        id == Cardinality(DOMAIN todo_store) + 1
        todo == TodoEntity(id, text, FALSE, ResolveLabels(todoRepoLabels, ids))
        pre == LabelIds(Values(store))
    IN IF missing # {}
       THEN /\ \E i \in missing :
                  todoLast' = TodoCall("create", 0, ids, pre, DOMAIN todo_store,
                                       TodoNotFound(i))
            /\ UNCHANGED <<todo_store, todoFresh>>
       ELSE /\ todo_store' = Insert(todo_store, id, todo)
            /\ todoLast' = TodoCall("create", 0, ids, pre, DOMAIN todo_store, TodoOk(todo))
            /\ todoFresh' = Insert(todoFresh, id, todo)

TodoRepositoryForMemory_find(id) ==
    /\ todoLast' = TodoCall("find", id, {}, LabelIds(Values(store)), DOMAIN todo_store,
                            IF id \in DOMAIN todo_store THEN TodoOk(todo_store[id])
                            ELSE TodoNotFound(id))
    /\ UNCHANGED <<todo_store, todoFresh>>

\* Option<T> as a set of at most one value: the field of an UpdateTodo
\* payload if present, else the stored value
OrElse(opt, old) == IF opt = {} THEN old ELSE CHOOSE v \in opt : TRUE

\* update applies only the fields present in the payload
ApplyUpdate(t, text, completed) ==
    TodoEntity(t.id, OrElse(text, t.text), OrElse(completed, t.completed), t.labels)

TodoRepositoryForMemory_update(id, text, completed) ==
    LET pre == LabelIds(Values(store))
    IN IF id \in DOMAIN todo_store
       THEN LET todo == ApplyUpdate(todo_store[id], text, completed)
            IN /\ todo_store' = Insert(todo_store, id, todo)
               /\ todoLast' = TodoCall("update", id, {}, pre, DOMAIN todo_store, TodoOk(todo))
               /\ todoFresh' = <<>>
       ELSE /\ todoLast' = TodoCall("update", id, {}, pre, DOMAIN todo_store,
                                    TodoNotFound(id))
            /\ UNCHANGED <<todo_store, todoFresh>>

TodoRepositoryForMemory_delete(id) ==
    LET pre == LabelIds(Values(store))
    IN IF id \in DOMAIN todo_store
       THEN /\ todo_store' = Remove(todo_store, id)
            /\ todoLast' = TodoCall("delete", id, {}, pre, DOMAIN todo_store, TodoOk(NoTodo))
            /\ todoFresh' = <<>>
       ELSE /\ todoLast' = TodoCall("delete", id, {}, pre, DOMAIN todo_store,
                                    TodoNotFound(id))
            /\ UNCHANGED <<todo_store, todoFresh>>

\* find/all of the database backend: the todos row joined with todo_labels
\* and labels
JoinLabels(assoc, rows, id) ==
    {l \in rows : [todo_id |-> id, label_id |-> l.id] \in assoc}
FoldEntity(row, assoc, rows) ==
    TodoEntity(row.id, row.text, row.completed, JoinLabels(assoc, rows, row.id))
TodoRow(id, text, completed) == [id |-> id, text |-> text, completed |-> completed]
RowsById(trows, id) == {r \in trows : r.id = id}

\* one transaction: insert the todos row, then one todo_labels row per label
\* id; an unknown label id rolls everything back (the sequence keeps its step)
TodoRepositoryForDb_create(text, ids) ==
    LET missing == ids \ LabelIds(labels_table)
        id == todos_id_seq + 1
        row == TodoRow(id, text, FALSE)
        assoc == todo_labels \cup {[todo_id |-> id, label_id |-> i] : i \in ids}
        todo == FoldEntity(row, assoc, labels_table)
        pre == LabelIds(labels_table)
    IN /\ todos_id_seq' = id
       /\ IF missing # {}
          THEN /\ \E i \in missing :
                     todoLast' = TodoCall("create", 0, ids, pre, LabelIds(todos_table),
                                          TodoNotFound(i))
               /\ UNCHANGED <<todos_table, todo_labels, todoFresh>>
          ELSE /\ todos_table' = todos_table \cup {row}
               /\ todo_labels' = assoc
               /\ todoLast' = TodoCall("create", 0, ids, pre, LabelIds(todos_table),
                                       TodoOk(todo))
               /\ todoFresh' = Insert(todoFresh, id, todo)

\* find without the join: the Todo comes back with no labels
TodoRepositoryForDb_find_unjoined(id) ==
    /\ \E found \in FetchOptional(RowsById(todos_table, id)) :
          todoLast' = TodoCall("find", id, {}, LabelIds(labels_table), LabelIds(todos_table),
                               IF found = {} THEN TodoNotFound(id)
                               ELSE TodoOk(FoldEntity(CHOOSE r \in found : TRUE,
                                                      {}, labels_table)))
    /\ UNCHANGED <<todos_table, todos_id_seq, todo_labels, todoFresh>>

TodoRepositoryForDb_find(id) ==
    /\ \E found \in FetchOptional(RowsById(todos_table, id)) :
          todoLast' = TodoCall("find", id, {}, LabelIds(labels_table), LabelIds(todos_table),
                               IF found = {} THEN TodoNotFound(id)
                               ELSE TodoOk(FoldEntity(CHOOSE r \in found : TRUE,
                                                      todo_labels, labels_table)))
    /\ UNCHANGED <<todos_table, todos_id_seq, todo_labels, todoFresh>>

TodoRepositoryForDb_update(id, text, completed) ==
    LET pre == LabelIds(labels_table)
        old == RowsById(todos_table, id)
        new == {TodoRow(r.id, OrElse(text, r.text), OrElse(completed, r.completed)) :
                   r \in old}
    IN /\ todos_table' = (todos_table \ old) \cup new
       /\ todoLast' = TodoCall("update", id, {}, pre, LabelIds(todos_table),
                               IF old = {} THEN TodoNotFound(id)
                               ELSE TodoOk(FoldEntity(CHOOSE r \in new : TRUE,
                                                      todo_labels, labels_table)))
       /\ todoFresh' = IF old = {} THEN todoFresh ELSE <<>>
       /\ UNCHANGED <<todos_id_seq, todo_labels>>

\* deleting a Todo removes its association rows
TodoRepositoryForDb_delete(id) ==
    LET pre == LabelIds(labels_table)
        old == RowsById(todos_table, id)
    IN /\ todos_table' = todos_table \ old
       /\ todo_labels' = {a \in todo_labels : a.todo_id # id}
       /\ todoLast' = TodoCall("delete", id, {}, pre, LabelIds(todos_table),
                               IF old = {} THEN TodoNotFound(id) ELSE TodoOk(NoTodo))
       /\ todoFresh' = IF old = {} THEN todoFresh ELSE <<>>
       /\ UNCHANGED todos_id_seq

\* what find/all of the Todo repository of backend b report
Todos(b, tstore, trows, assoc, rows) ==
    IF b = "Memory" THEN Values(tstore)
    ELSE {FoldEntity(r, assoc, rows) : r \in trows}

InitTodo == Init

\* memLast, dbLast and todoLast hold the call that has just returned: a call
\* on one repository ends the record of the other
LabelCallOver ==
    /\ memLast' = NoCall
    /\ dbLast' = NoCall
    /\ UNCHANGED <<store, memIssued, labels_table, labels_id_seq>>

LabelCreate ==
    /\ \E name \in TodoNames :
          \/ backend = "Memory" /\ LabelRepositoryForMemory_create(name)
                                /\ UNCHANGED dbVars
          \/ backend = "Db" /\ LabelRepositoryForDb_create(name, "none")
                            /\ UNCHANGED memVars
    /\ todoLast' = NoTodoCall
    /\ UNCHANGED <<backend, httpVars, lockVars, wired, todoRepoLabels, todo_store, todos_table, todos_id_seq,
                   todoFresh, todo_labels, taskVars>>

\* a successful label delete ends what todoFresh records
LabelDelete ==
    /\ \E id \in IdArgs :
          \/ backend = "Memory" /\ LabelRepositoryForMemory_delete(id)
                                /\ UNCHANGED <<dbVars, todo_labels>>
          \/ backend = "Db" /\ LabelRepositoryForDb_delete(id, FALSE)
                            /\ UNCHANGED memVars
    /\ todoFresh' = <<>>
    /\ todoLast' = NoTodoCall
    /\ UNCHANGED <<backend, httpVars, lockVars, wired, todoRepoLabels, todo_store, todos_table, todos_id_seq,
                   taskVars>>

\* the tests build the in-memory Todo repository from the fixture list or
\* from the labels created so far
TodoNew ==
    /\ backend = "Memory"
    /\ \E ls \in {FixtureLabels, Values(store)} : TodoRepositoryForMemory_new(ls)
    /\ UNCHANGED <<backend, httpVars, lockVars, memVars, dbVars, taskVars>>

\* a create call on the Todo repository of the chosen backend
TodoCreateCall ==
    /\ wired
    /\ \E text \in Texts, ids \in SUBSET LabelIdArgs :
          \/ /\ backend = "Memory"
             /\ Cardinality(DOMAIN todo_store) < MaxTodos
             /\ TodoRepositoryForMemory_create(text, ids)
             /\ UNCHANGED <<todos_table, todos_id_seq, todo_labels>>
          \/ /\ backend = "Db"
             /\ todos_id_seq < MaxTodos
             /\ TodoRepositoryForDb_create(text, ids)
             /\ UNCHANGED todo_store
    /\ LabelCallOver
    /\ UNCHANGED <<backend, lockVars, wired, todoRepoLabels, taskVars>>

TodoCreate == TodoCreateCall /\ UNCHANGED response

TodoFind ==
    /\ wired
    /\ \E id \in 1..MaxTodos :
          \/ /\ backend = "Memory"
             /\ TodoRepositoryForMemory_find(id)
             /\ UNCHANGED <<todos_table, todos_id_seq, todo_labels>>
          \/ /\ backend = "Db"
             /\ TodoRepositoryForDb_find(id)
             /\ UNCHANGED todo_store
    /\ LabelCallOver
    /\ UNCHANGED <<backend, httpVars, lockVars, wired, todoRepoLabels, taskVars>>

TodoUpdate ==
    /\ wired
    /\ \E id \in 1..MaxTodos, text \in {{}}, completed \in {{}, {TRUE}} :
          \/ /\ backend = "Memory"
             /\ TodoRepositoryForMemory_update(id, text, completed)
             /\ UNCHANGED <<todos_table, todos_id_seq, todo_labels>>
          \/ /\ backend = "Db"
             /\ TodoRepositoryForDb_update(id, text, completed)
             /\ UNCHANGED todo_store
    /\ LabelCallOver
    /\ UNCHANGED <<backend, httpVars, lockVars, wired, todoRepoLabels, taskVars>>

TodoDelete ==
    /\ wired
    /\ \E id \in 1..MaxTodos :
          \/ /\ backend = "Memory"
             /\ TodoRepositoryForMemory_delete(id)
             /\ UNCHANGED <<todos_table, todos_id_seq, todo_labels>>
          \/ /\ backend = "Db"
             /\ TodoRepositoryForDb_delete(id)
             /\ UNCHANGED todo_store
    /\ LabelCallOver
    /\ UNCHANGED <<backend, httpVars, lockVars, wired, todoRepoLabels, taskVars>>

NextTodo ==
    LabelCreate \/ LabelDelete \/ TodoNew \/ TodoCreate \/ TodoFind \/ TodoUpdate
        \/ TodoDelete

SpecTodo == InitTodo /\ [][NextTodo]_vars

(***************************************************************************)
(* The POST /todos handler (src/handlers.rs) in front of the Todo          *)
(* repository.                                                             *)
(***************************************************************************)
\* let todo = repository.create(payload); (StatusCode::CREATED, Json(todo))
create_todo(todo) == Response("CREATED", todo)

PostTodos ==
    /\ TodoCreateCall
    /\ response' = create_todo(todoLast'.res)

NextHttp == LabelCreate \/ LabelDelete \/ TodoNew \/ PostTodos \/ TodoFind

SpecHttp == InitTodo /\ [][NextHttp]_vars

(***************************************************************************)
(* Concurrent use of one in-memory label repository: the repository is a   *)
(* clone of one Arc<RwLock<HashMap>> in every task, every call takes the   *)
(* write or the read guard first and drops it when it returns.             *)
(***************************************************************************)
NumLockNames == 1
LockNames == {NameList[i] : i \in 1..NumLockNames}
LockIdArgs == 1..(NumLockNames + 1)

InitLock == InitWith("Memory")

\* create and delete call write_store_ref, all calls read_store_ref
IsWrite(op) == op \in {"create", "delete"}

\* a lock that lets every caller in
CanAcquire_always(p) == TRUE

\* a lock whose write() does not wait for the read guards to be dropped
CanAcquire_ignoresReaders(p) == lock.writer = 0

\* RwLock::write() returns when no guard is held, read() when no write guard is
CanAcquire(p) ==
    IF IsWrite(call[p].op)
    THEN lock.writer = 0 /\ lock.readers = {}
    ELSE lock.writer = 0

\* the lock once p has been given its guard
Acquired(p) ==
    [writer |-> IF IsWrite(call[p].op) THEN p ELSE lock.writer,
     readers |-> IF IsWrite(call[p].op) THEN lock.readers ELSE lock.readers \cup {p}]

\* a guard that is never dropped
Released_leaked(p) == lock

\* the guard of p goes out of scope when the method returns
Released(p) ==
    [lock EXCEPT !.writer = IF @ = p THEN 0 ELSE @, !.readers = @ \ {p}]

TaskResult(p, res) == Call(call[p].op, call[p].name, call[p].id, "none", {}, {}, res)

\* a task calls a method of the repository and blocks in write() or read()
StartCall(p, req) ==
    /\ pc[p] = "idle"
    /\ call' = [call EXCEPT ![p] = req]
    /\ pc' = [pc EXCEPT ![p] = "blocked"]
    /\ ret' = [ret EXCEPT ![p] = NoCall]
    /\ UNCHANGED <<backend, httpVars, todoVars, todo_labels, dbVars, memVars,
                   optional_label, lock>>

TaskStart(p) ==
    /\ \E req \in {Request("create", n, 0) : n \in LockNames}
                  \cup {Request("delete", "", i) : i \in LockIdArgs}
                  \cup {Request("all", "", 0)} : StartCall(p, req)
    /\ UNCHANGED arg

\* self.store.write().unwrap() / self.store.read().unwrap() returns
TaskAcquire(p) ==
    /\ pc[p] = "blocked"
    /\ CanAcquire(p)
    /\ lock' = Acquired(p)
    /\ pc' = [pc EXCEPT ![p] = "held"]
    /\ UNCHANGED <<backend, httpVars, todoVars, todo_labels, dbVars, memVars,
                   arg, optional_label, ret, call>>

\* the method returns res: the guard is dropped
TaskReturn(p, res) ==
    /\ ret' = [ret EXCEPT ![p] = TaskResult(p, res)]
    /\ pc' = [pc EXCEPT ![p] = "idle"]
    /\ lock' = Released(p)

\* create, lines 178-182: the lookup by name, then the id from store.len()
MemTaskCreateFind(p) ==
    /\ pc[p] = "held"
    /\ call[p].op = "create"
    /\ IF FindByName(store, call[p].name) # {}
       THEN /\ \E l \in FindByName(store, call[p].name) : TaskReturn(p, OkLabel(l))
            /\ UNCHANGED call
       ELSE /\ call' = [call EXCEPT ![p].id = NewId(store)]
            /\ pc' = [pc EXCEPT ![p] = "insert"]
            /\ UNCHANGED <<lock, ret>>
    /\ UNCHANGED <<backend, httpVars, todoVars, todo_labels, dbVars, memVars,
                   arg, optional_label>>

\* create, lines 183-185: the insert under the id computed before
MemTaskCreateInsert(p) ==
    /\ pc[p] = "insert"
    /\ store' = Insert(store, call[p].id, Label(call[p].id, call[p].name))
    /\ TaskReturn(p, OkLabel(Label(call[p].id, call[p].name)))
    /\ UNCHANGED <<backend, httpVars, todoVars, todo_labels, dbVars, memLast, memIssued,
                   arg, optional_label, call>>

\* delete, lines 194-196
MemTaskDelete(p) ==
    /\ pc[p] = "held"
    /\ call[p].op = "delete"
    /\ IF call[p].id \in DOMAIN store
       THEN store' = Remove(store, call[p].id) /\ TaskReturn(p, OkUnit)
       ELSE store' = store /\ TaskReturn(p, NotFound(call[p].id))
    /\ UNCHANGED <<backend, httpVars, todoVars, todo_labels, dbVars, memLast, memIssued,
                   arg, optional_label, call>>

\* all, lines 189-190
MemTaskAll(p) ==
    /\ pc[p] = "held"
    /\ call[p].op = "all"
    /\ \E q \in ValuesInOrder(store) : TaskReturn(p, OkLabels(q))
    /\ UNCHANGED <<backend, httpVars, todoVars, todo_labels, dbVars, memVars,
                   arg, optional_label, call>>

TaskBody(p) ==
    MemTaskCreateFind(p) \/ MemTaskCreateInsert(p) \/ MemTaskDelete(p) \/ MemTaskAll(p)

NextLock == \E p \in Procs : TaskStart(p) \/ TaskAcquire(p) \/ TaskBody(p)

SpecLock == InitLock /\ [][NextLock]_vars

\* A fresh repository, one create per task, and all() once every create has
\* returned (the shape of a test that spawns the creates and joins them).
CreatesReturned ==
    \A q \in Procs : arg[q] # "" /\ ~(call[q].op = "create" /\ pc[q] # "idle")

CreateStart(p) ==
    /\ arg[p] = ""
    /\ \E name \in Names :
          /\ StartCall(p, Request("create", name, 0))
          /\ arg' = [arg EXCEPT ![p] = name]

AllStart(p) ==
    /\ CreatesReturned
    /\ StartCall(p, Request("all", "", 0))
    /\ UNCHANGED arg

NextCreates ==
    \E p \in Procs :
        \/ CreateStart(p)
        \/ AllStart(p)
        \/ TaskAcquire(p)
        \/ MemTaskCreateFind(p)
        \/ MemTaskCreateInsert(p)
        \/ MemTaskAll(p)

SpecCreates == InitLock /\ [][NextCreates]_vars

\* Every call on a task of its own, as a request brings it: the task calls
\* one method and ends when the method has returned.
TaskStartOnce(p) ==
    /\ call[p] = NoRequest
    /\ TaskStart(p)

\* what a task does once it has called: it is given its guard and runs the body
TaskStep(p) == TaskAcquire(p) \/ TaskBody(p)

NextLockFair == \E p \in Procs : TaskStartOnce(p) \/ TaskStep(p)

\* a fair lock gives a task its guard once the guard stays free for it, and a
\* task that holds a guard runs on: the bodies have no await and no loop
SpecLockFair ==
    /\ InitLock
    /\ [][NextLockFair]_vars
    /\ \A p \in Procs : WF_vars(TaskStep(p))

(***************************************************************************)
(* Claims                                                                  *)
(***************************************************************************)
StoredName(ls, name) == \E l \in ls : l.name = name
StoredId(ls, id) == \E l \in ls : l.id = id
Elements(q) == {q[i] : i \in 1..Len(q)}

\* what the contract asks of a create the store answered
CreateContract(last, stored) ==
    (last.op = "create" /\ last.fault = "none") =>
        /\ StoredName(last.pre, last.name) =>
              \E l \in last.pre : l.name = last.name /\ last.res = Duplicate(l.id)
        /\ ~StoredName(last.pre, last.name) =>
              last.res.kind = "Ok" /\ last.res.name = last.name
        /\ Cardinality({l \in stored : l.name = last.name}) = 1

\* C1: in both backends a create of a name that is not stored succeeds, a
\* create of a name that is stored fails with Duplicate(id of the stored
\* label), and afterwards exactly one stored label has that name.
C1_SecondCreateIsDuplicate ==
    /\ CreateContract(memLast, Values(store))
    /\ CreateContract(dbLast, labels_table)

\* C2: in the in-memory backend a create of a name that is not stored returns
\* an id strictly greater than every id an earlier create returned.
C2_FreshIdAboveEveryIssuedId ==
    (memLast.op = "create" /\ ~StoredName(memLast.pre, memLast.name)) =>
        \A i \in memLast.issued : memLast.res.id > i

\* C3: a stored label keeps its id and name until delete(id): no step changes
\* the label held under an id that stays in the store.
C3_LabelImmutable ==
    [][\A id \in DOMAIN store \cap DOMAIN store' : store'[id] = store[id]]_vars

\* what the contract asks of a delete the store answered
DeleteContract(last, stored) ==
    (last.op = "delete" /\ last.fault = "none") =>
        IF StoredId(last.pre, last.id)
        THEN last.res = OkUnit
        ELSE last.res = NotFound(last.id) /\ stored = last.pre

\* C4: in both backends delete(id) of an id that is not stored fails with
\* NotFound(id) and leaves the stored labels unchanged; delete(id) of a
\* stored id succeeds.
C4_DeleteAbsentIsNotFound ==
    /\ DeleteContract(memLast, Values(store))
    /\ DeleteContract(dbLast, labels_table)

\* what the contract asks of an all() the store answered
AllContract(last) ==
    (last.op = "all" /\ last.fault = "none") =>
        /\ last.res.kind = "Ok"
        /\ Elements(last.res.labels) = last.pre
        /\ IsAscending(last.res.labels)

\* C6: in both backends all() returns the stored labels in strictly ascending
\* id order.
C6_AllAscendingById ==
    /\ AllContract(memLast)
    /\ AllContract(dbLast)

\* C5: when creates run concurrently on the database backend, no two stored
\* labels share a name, no two creates of one name both succeed, and every
\* create the store answered either succeeds or fails with Duplicate(id)
\* for a label id that carries its name.
C5_ConcurrentCreateIsDuplicate ==
    /\ \A n \in Names : Cardinality(SelectByName(labels_table, n)) <= 1
    /\ \A p, q \in Procs :
          (p # q /\ ret[p].op = "create" /\ ret[q].op = "create"
                 /\ ret[p].name = ret[q].name)
             => ~(ret[p].res.kind = "Ok" /\ ret[q].res.kind = "Ok")
    /\ \A p \in Procs :
          (ret[p].op = "create" /\ ret[p].fault = "none") =>
             \/ ret[p].res.kind = "Ok" /\ ret[p].res.name = ret[p].name
             \/ ret[p].res.kind = "Duplicate"

\* C7: driven by the same calls from empty stores, the in-memory and the
\* database backend return the same result for every call.
C7_BackendsReturnTheSame ==
    memLast.op # "none" => memLast.res = dbLast.res

\* the Label entity set of the LabelRepository and the Todos find/all report
LabelsNow == RepositoryLabels(backend, store, labels_table)
TodosNow == Todos(backend, todo_store, todos_table, todo_labels, labels_table)

\* C8: a step that removes a label id from the LabelRepository (a delete)
\* leaves no Todo listing that label and deletes no Todo, with either backend.
C8_LabelDeleteUnlistsLabel ==
    [][\A id \in IdArgs :
          (StoredId(LabelsNow, id) /\ ~StoredId(LabelsNow', id)) =>
             /\ \A t \in TodosNow' : id \notin LabelIds(t.labels)
             /\ {t.id : t \in TodosNow'} = {t.id : t \in TodosNow}]_vars

\* C9: a Todo create whose payload names a label id the LabelRepository does
\* not hold fails with NotFound(that id) and stores no Todo; a Todo create
\* that succeeds associates only label ids the LabelRepository holds.
C9_CreateTodoNeedsStoredLabels ==
    todoLast.op = "create" =>
        /\ todoLast.ids \ todoLast.labelsPre # {} =>
              /\ todoLast.res.kind = "NotFound"
              /\ todoLast.res.id \in todoLast.ids \ todoLast.labelsPre
              /\ {t.id : t \in TodosNow} = todoLast.todosPre
        /\ todoLast.res.kind = "Ok" =>
              LabelIds(todoLast.res.todo.labels) \subseteq todoLast.labelsPre

\* C10: find(id) of a Todo that create returned, with no update or delete
\* since, returns the Todo create returned; that Todo carries the payload's
\* text and label ids and completed = false.
C10_FindReturnsCreatedTodo ==
    /\ (todoLast.op = "find" /\ todoLast.id \in DOMAIN todoFresh) =>
          todoLast.res = TodoOk(todoFresh[todoLast.id])
    /\ (todoLast.op = "create" /\ todoLast.res.kind = "Ok") =>
          /\ todoLast.res.todo.completed = FALSE
          /\ todoLast.res.todo.text \in Texts
          /\ LabelIds(todoLast.res.todo.labels) = todoLast.ids
          /\ todoLast.res.id \in DOMAIN todoFresh
          /\ todoFresh[todoLast.res.id] = todoLast.res.todo

\* C10 witness: on the database backend, a find of a created Todo that
\* carries a label
C10_FindAfterCreate ==
    /\ todoLast.op = "find"
    /\ todoLast.id \in DOMAIN todoFresh
    /\ todoLast.res.kind = "Ok"
    /\ todoLast.res.todo.labels # {}
    /\ backend = "Db"

\* C11: POST /todos answers 201 Created with the created Todo exactly when
\* the create succeeded, and 400 Bad Request when the create failed with
\* NotFound for a referenced label.
C11_CreatedOnlyOnSuccess ==
    response # NoResponse =>
        /\ response.status = "CREATED" <=> response.body.kind = "Ok"
        /\ response.body.kind = "NotFound" => response.status = "BAD_REQUEST"

\* C12: in the in-memory backend no two stored labels share a name and every
\* entry of the store is keyed by the id of the label it holds.
C12_UniqueNamesKeyedById ==
    /\ \A k \in DOMAIN store : store[k].id = k
    /\ \A j, k \in DOMAIN store : store[j].name = store[k].name => j = k

\* C12 witness: a create of a new name has just replaced a stored label
\* (its id was the id of a label in the store) and two labels are stored
C12_AfterReplacingCreate ==
    /\ memLast.op = "create"
    /\ ~StoredName(memLast.pre, memLast.name)
    /\ StoredId(memLast.pre, memLast.res.id)
    /\ Cardinality(DOMAIN store) = 2

\* what holds of a create of a stored name that the store answered
DuplicateFrame(last, stored) ==
    (last.op = "create" /\ last.fault = "none" /\ StoredName(last.pre, last.name)) =>
        /\ stored = last.pre
        /\ last.res.kind \in {"Ok", "Duplicate"}
        /\ \E l \in last.pre : l.name = last.name /\ last.res.id = l.id

\* C15: in both backends a create of a name that is already stored leaves
\* the stored labels unchanged and reports (as Duplicate or as the returned
\* Label) the id of the stored label with that name.
C15_DuplicateCreateChangesNothing ==
    /\ DuplicateFrame(memLast, Values(store))
    /\ DuplicateFrame(dbLast, labels_table)

\* C15 witness: the database backend has rejected a create of a stored name
\* while another label is stored too
C15_AfterDuplicateCreate ==
    /\ dbLast.op = "create"
    /\ dbLast.res.kind = "Duplicate"
    /\ Cardinality(labels_table) = 2

\* what the contract asks of a successful create of a name not yet stored
FreshCreateFrame(last, stored) ==
    (last.op = "create" /\ last.res.kind = "Ok" /\ ~StoredName(last.pre, last.name)) =>
        /\ last.res.name = last.name
        /\ Label(last.res.id, last.name) \notin last.pre
        /\ stored = last.pre \cup {Label(last.res.id, last.name)}
        /\ Cardinality(stored) = Cardinality(last.pre) + 1

\* C16: after a successful create of a name not yet stored the stored labels
\* are those stored before plus the returned Label (one more than before);
\* on an empty in-memory store the returned id is 1.
C16_FreshCreateAddsOne ==
    /\ FreshCreateFrame(memLast, Values(store))
    /\ FreshCreateFrame(dbLast, labels_table)
    /\ (memLast.op = "create" /\ memLast.pre = {}) =>
          memLast.res.id = 1 /\ Values(store) = {Label(1, memLast.name)}

\* C17: every failure the database backend returns is NotFound, Duplicate or
\* Unexpected.
C17_DbFailuresAreTyped ==
    dbLast.res.kind \in {"Ok", "NotFound", "Duplicate", "Unexpected"}

\* C18: in the in-memory backend a successful delete(id) removes the label
\* with that id and nothing else.
C18_DeleteRemovesExactlyOne ==
    (memLast.op = "delete" /\ memLast.res = OkUnit) =>
        /\ StoredId(memLast.pre, memLast.id)
        /\ ~StoredId(Values(store), memLast.id)
        /\ Values(store) = {l \in memLast.pre : l.id # memLast.id}

\* C18 witness: a successful delete that left another label in the store
C18_AfterDeleteOfOneOfTwo ==
    /\ memLast.op = "delete"
    /\ memLast.res = OkUnit
    /\ Cardinality(memLast.pre) >= 2
    /\ memLast.id = 2

\* the id under which the store holds the name task q created
StoredIdOf(q) == CHOOSE k \in DOMAIN store : store[k].name = arg[q]

\* the tasks whose create has returned, and whether the names given to the
\* creates started so far differ pairwise
Created == {p \in Procs : ret[p].op = "create"}
DistinctNames == \A p, q \in Procs : (p # q /\ arg[p] # "") => arg[p] # arg[q]

\* C13: concurrent creates with pairwise distinct names on a fresh in-memory
\* repository return pairwise distinct ids, exactly 1..N once all N have
\* returned, and an all() that follows has length N.
C13_ConcurrentCreatesGetOneToN ==
    DistinctNames =>
        /\ \A p, q \in Created : p # q => ret[p].res.id # ret[q].res.id
        /\ \A p \in Created : ret[p].res.id \in 1..NumProcs /\ ret[p].res.name = arg[p]
        /\ Created = Procs => {ret[p].res.id : p \in Procs} = 1..NumProcs
        /\ \A p \in Procs :
              ret[p].op = "all" =>
                  /\ Len(ret[p].res.labels) = NumProcs
                  /\ Elements(ret[p].res.labels) = {Label(StoredIdOf(q), arg[q]) : q \in Procs}
                  /\ {l.id : l \in Elements(ret[p].res.labels)} = 1..NumProcs

\* C13 witness: every task has created a label, the names differ pairwise and
\* an all() has returned
C13_AfterCreatesAndAll ==
    /\ \A p \in Procs : arg[p] # ""
    /\ DistinctNames
    /\ \E p \in Procs : ret[p].op = "all"

\* the tasks that run between taking a guard and returning
WriteHolders == {p \in Procs : pc[p] \in {"held", "insert"} /\ IsWrite(call[p].op)}
ReadHolders == {p \in Procs : pc[p] = "held" /\ call[p].op = "all"}

\* C14: while a create or a delete runs, no other create or delete and no
\* all() runs, and the store a create inserts into is the store its lookup
\* and its id computation saw.
C14_WritersExcludeEveryone ==
    /\ Cardinality(WriteHolders) <= 1
    /\ WriteHolders # {} => ReadHolders = {}
    /\ \A p \in Procs :
          pc[p] = "insert" =>
              /\ FindByName(store, call[p].name) = {}
              /\ call[p].id = NewId(store)

\* C14 witness: a create between its lookup and its insert while another
\* task is blocked in read()
C14_CreateHoldsWhileAllWaits ==
    \E p, q \in Procs :
        /\ pc[p] = "insert"
        /\ pc[q] = "blocked"
        /\ call[q].op = "all"

\* C19: a task that is not inside a call holds no guard, and every call that
\* has started returns with a result.
C19_EveryCallReturns ==
    /\ [](\A p \in Procs :
            pc[p] = "idle" =>
                /\ lock.writer # p
                /\ p \notin lock.readers)
    /\ \A p \in Procs : (pc[p] # "idle") ~> (pc[p] = "idle" /\ ret[p].op # "none")

\* C19 witness: a task holds the write guard while another one is blocked
C19_WriterHoldsOtherBlocked ==
    \E p, q \in Procs : lock.writer = p /\ pc[p] = "insert" /\ pc[q] = "blocked"

====
